---- MODULE Spec2Model ----
(***************************************************************************)
(* Model of esi_util.py: ESIDataWrapper's spreadsheet-to-CSV cache         *)
(* (_fetch_esi_tables), the latest-value rankings (get_latest_rankings)    *)
(* and the historical series (get_historical_values).                      *)
(*                                                                         *)
(* A DataFrame is a record [index, columns, rows]; the file system is a    *)
(* mapping from file name to file content whose domain is the set of files *)
(* that exist; CSV text is a sequence of one-character strings.            *)
(***************************************************************************)
EXTENDS Integers, Sequences, FiniteSets, TLC

VARIABLES
    xlsx,          \* content of the source spreadsheet (sheet MONTHLY)
    disk,          \* cache directory: CSV file name -> file content
    disturbances,  \* environment events (I/O faults, file deletions, new
                   \* spreadsheet editions) still to come
    op,            \* the last top-level operation and its arguments
    outcome,       \* how it ended: "ok", "io_error", "out_of_range"
    ioLog,         \* the file-system calls it made, in order
    tables,        \* <<TableCollection>> its fetch returned, or <<>>
    rankings,      \* <<rankings>> returned by get_latest_rankings, or <<>>
    history        \* <<values>> returned by get_historical_values, or <<>>

vars == <<xlsx, disk, disturbances, op, outcome, ioLog, tables, rankings,
          history>>

-----------------------------------------------------------------------------
(* Bounds of the model *)

\* rows (months) of the spreadsheet
NumRows == 2

\* environment events in one behaviour: I/O faults, manual deletions of a
\* cache file, new editions of the spreadsheet
MaxDisturbances == 1

\* largest window size passed to get_historical_values
MaxMonths == 3

-----------------------------------------------------------------------------
(* Entity catalog *)

Range(s) == { s[i] : i \in DOMAIN s }

ENTITY_CODES ==
    << "eu", "ea", "at", "be", "dk", "de", "el", "es",
       "fr", "it", "nl", "pl", "pt", "fi", "se", "uk" >>

\* an ordered dict is the sequence of its (key, value) items in insertion order
ESI_ENTITIES ==
    << <<"eu", "Europe">>, <<"ea", "Euro Area">>, <<"at", "Austria">>,
       <<"be", "Belgium">>, <<"dk", "Denmark">>, <<"de", "Germany">>,
       <<"el", "Greece">>, <<"es", "Spain">>, <<"fr", "France">>,
       <<"it", "Italy">>, <<"nl", "Netherlands">>, <<"pl", "Poland">>,
       <<"pt", "Portugal">>, <<"fi", "Finland">>, <<"se", "Sweden">>,
       <<"uk", "United Kingdom">> >>

ENTITY_COLS ==
    << <<"eu", "A,C:H">>, <<"ea", "A,K:P">>, <<"at", "A,FO:FT">>,
       <<"be", "A,S:X">>, <<"dk", "A,AQ:AV">>, <<"de", "A,AY:BD">>,
       <<"el", "A,BW:CB">>, <<"es", "A,CE:CJ">>, <<"fr", "A,CM:CR">>,
       <<"it", "A,DC:DH">>, <<"nl", "A,FG:FL">>, <<"pl", "A,FW:GB">>,
       <<"pt", "A,GE:GJ">>, <<"fi", "A,HK:HP">>, <<"se", "A,HS:HX">>,
       <<"uk", "A,IA:IF">> >>

ESI_COMPONENTS == << ".INDU", ".SERV", ".CONS", ".RETA", ".BUIL", ".ESI" >>

\* str.upper() on the entity codes
Upper(ec) ==
    CASE ec = "eu" -> "EU" [] ec = "ea" -> "EA" [] ec = "at" -> "AT"
      [] ec = "be" -> "BE" [] ec = "dk" -> "DK" [] ec = "de" -> "DE"
      [] ec = "el" -> "EL" [] ec = "es" -> "ES" [] ec = "fr" -> "FR"
      [] ec = "it" -> "IT" [] ec = "nl" -> "NL" [] ec = "pl" -> "PL"
      [] ec = "pt" -> "PT" [] ec = "fi" -> "FI" [] ec = "se" -> "SE"
      [] ec = "uk" -> "UK"

Entities == Range(ENTITY_CODES)

\* dict lookup d[key] in an ordered dict
Lookup(d, key) == d[CHOOSE i \in DOMAIN d : d[i][1] = key][2]

\* dict.keys() in insertion order
Keys(d) == [ i \in DOMAIN d |-> d[i][1] ]

\* the dict a loop `for k in keys: d[k] = f[k]` builds, entry by entry
RECURSIVE Dict(_, _)
Dict(keys, f) ==
    IF keys = << >> THEN << >>
    ELSE (Head(keys) :> f[Head(keys)]) @@ Dict(Tail(keys), f)

-----------------------------------------------------------------------------
(* Values, dates and periods *)

\* a float is NaN or a number with one decimal, held in tenths
NaN == [nan |-> TRUE, tenths |-> 0]

Num(t) == [nan |-> FALSE, tenths |-> t]

\* float comparison a < b: false as soon as one side is NaN
FloatLt(a, b) == ~a.nan /\ ~b.nan /\ a.tenths < b.tenths

\* months are ordered by year, then month
Ord(p) == p.year * 12 + (p.month - 1)

FromOrd(n) == [year |-> n \div 12, month |-> (n % 12) + 1]

LastDay(p) ==
    IF p.month = 2 THEN (IF p.year % 4 = 0 THEN 29 ELSE 28)
    ELSE IF p.month \in {4, 6, 9, 11} THEN 30 ELSE 31

\* DatetimeIndex.to_period(freq='M') on one date: the day is dropped
DateToPeriod(d) == [year |-> d.year, month |-> d.month]

\* now + relativedelta(months=-1), as (year, month)
MonthAgo(now) ==
    IF now.month = 1 THEN [year |-> now.year - 1, month |-> 12]
    ELSE [year |-> now.year, month |-> now.month - 1]

-----------------------------------------------------------------------------
(* CSV text *)

DigitChars == << "0", "1", "2", "3", "4", "5", "6", "7", "8", "9" >>

DigitChar(d) == DigitChars[d + 1]

DigitOf == [ ch \in Range(DigitChars) |->
               CHOOSE d \in 0..9 : DigitChars[d + 1] = ch ]

RECURSIVE FormatNat(_)
FormatNat(n) ==
    IF n < 10 THEN << DigitChar(n) >>
    ELSE FormatNat(n \div 10) \o << DigitChar(n % 10) >>

\* the number written by the digits s[lo..hi]
RECURSIVE ParseNat(_, _, _)
ParseNat(s, lo, hi) ==
    IF hi < lo THEN 0
    ELSE ParseNat(s, lo, hi - 1) * 10 + DigitOf[s[hi]]

\* the first position >= from where s holds ch (0 when there is none)
RECURSIVE Find(_, _, _)
Find(s, ch, from) ==
    IF from > Len(s) THEN 0
    ELSE IF s[from] = ch THEN from
    ELSE Find(s, ch, from + 1)

Pad2(n) == IF n < 10 THEN << "0", DigitChar(n) >> ELSE FormatNat(n)

\* a Timestamp at midnight is written as YYYY-MM-DD
FormatDate(d) ==
    FormatNat(d.year) \o << "-" >> \o Pad2(d.month) \o << "-" >> \o Pad2(d.day)

\* parse_dates=[0]: year, month and day between the dashes
ParseDate(s) ==
    LET d1 == Find(s, "-", 1)
        d2 == Find(s, "-", d1 + 1)
    IN  [year  |-> ParseNat(s, 1, d1 - 1),
         month |-> ParseNat(s, d1 + 1, d2 - 1),
         day   |-> ParseNat(s, d2 + 1, Len(s))]

Abs(n) == IF n < 0 THEN 0 - n ELSE n

\* a float is written by repr (sign, integer part, point, decimals);
\* NaN is written as the empty string
FormatFloatNoSign(v) ==
    IF v.nan THEN << >>
    ELSE FormatNat(Abs(v.tenths) \div 10) \o << "." >>
         \o << DigitChar(Abs(v.tenths) % 10) >>

FormatFloat(v) ==
    IF v.nan THEN << >>
    ELSE (IF v.tenths < 0 THEN << "-" >> ELSE << >>)
         \o FormatNat(Abs(v.tenths) \div 10) \o << "." >>
         \o << DigitChar(Abs(v.tenths) % 10) >>

\* the empty field is read as NaN, anything else as a decimal number
ParseFloat(s) ==
    IF s = << >> THEN NaN
    ELSE LET first == IF s[1] = "-" THEN 2 ELSE 1
             dot   == Find(s, ".", first)
             mag   == ParseNat(s, first, dot - 1) * 10
                      + ParseNat(s, dot + 1, Len(s))
         IN  Num(IF s[1] = "-" THEN 0 - mag ELSE mag)

\* DataFrame.to_csv: a header line, then one line per row
ToCsv(df) ==
    [header |-> df.columns,
     lines  |-> [ r \in DOMAIN df.rows |->
                    [date  |-> FormatDate(df.index[r]),
                     cells |-> [ c \in DOMAIN df.rows[r] |->
                                    FormatFloat(df.rows[r][c]) ]] ]]

\* pd.read_csv(index_col=0, parse_dates=[0])
ReadCsv(file) ==
    [index   |-> [ r \in DOMAIN file.lines |-> ParseDate(file.lines[r].date) ],
     columns |-> file.header,
     rows    |-> [ r \in DOMAIN file.lines |->
                     [ c \in DOMAIN file.lines[r].cells |->
                         ParseFloat(file.lines[r].cells[c]) ] ]]

\* pd.read_excel(header=0, index_col=0, usecols=cols): column A is the index,
\* the entity's six columns are the data
ReadExcel(sheet, cols) ==
    [index   |-> sheet.index,
     columns |-> sheet.block[cols].columns,
     rows    |-> sheet.block[cols].rows]

\* df.index = df.index.to_period(freq='M')
ToPeriod(df) ==
    [df EXCEPT !.index = [ r \in DOMAIN df.index |-> DateToPeriod(df.index[r]) ]]

-----------------------------------------------------------------------------
(* Spreadsheets the model draws its input from *)

FirstPeriod == [year |-> 2019, month |-> 12]

\* the month of row r: consecutive months, across a year boundary
RowPeriod(r) == FromOrd(Ord(FirstPeriod) + (r - 1))

\* column A holds the last day of each month
RowDate(r) ==
    [year |-> RowPeriod(r).year, month |-> RowPeriod(r).month,
     day |-> LastDay(RowPeriod(r))]

TemplateNames == << "flat", "asc", "desc", "mod3" >>

\* value pattern over the catalog positions: all tied, rising, falling, or
\* tied in three interleaved groups
Template(name, i) ==
    CASE name = "flat" -> 5
      [] name = "asc"  -> i
      [] name = "desc" -> (Len(ENTITY_CODES) + 1) - i
      [] name = "mod3" -> i % 3

\* the cell of row r, entity position i, component position c: component c
\* follows template base + c, rows and components are offset from each other,
\* the first row is negative, and entity `hole` (0: none) reports no value
Cell(base, hole, r, i, c) ==
    IF i = hole THEN NaN
    ELSE Num(Template(TemplateNames[((base + c) % Len(TemplateNames)) + 1], i)
             + 3 * c + 7 * (r - 1) - 20)

SheetOf(base, hole) ==
    [index |-> [ r \in 1..NumRows |-> RowDate(r) ],
     block |-> [ cols \in { ENTITY_COLS[i][2] : i \in DOMAIN ENTITY_COLS } |->
        LET i  == CHOOSE j \in DOMAIN ENTITY_COLS : ENTITY_COLS[j][2] = cols
            ec == ENTITY_COLS[i][1]
        IN  [columns |-> [ c \in DOMAIN ESI_COMPONENTS |->
                             << Upper(ec), ESI_COMPONENTS[c] >> ],
             rows    |-> [ r \in 1..NumRows |->
                             [ c \in DOMAIN ESI_COMPONENTS |->
                                 Cell(base, hole, r, i, c) ] ]] ]]

FetchSheets == { SheetOf(1, 0), SheetOf(3, Len(ENTITY_CODES)) }

-----------------------------------------------------------------------------
(* Table Cache Manager *)

\* _entity_csv_filename: '<code>_esi.csv' in the data directory
EntityCsvFilename(ec) == << ec, "_esi.csv" >>

\* we_have_csvs after the checking loop: every entity's file is a file
WeHaveCsvsNever(d) == FALSE

WeHaveCsvs(d) ==
    \A i \in DOMAIN ENTITY_CODES : EntityCsvFilename(ENTITY_CODES[i]) \in DOMAIN d

\* the is_file() calls of the checking loop, which breaks at the first
\* missing file
IsFileCalls(d) ==
    LET missing == { i \in DOMAIN ENTITY_CODES :
                        EntityCsvFilename(ENTITY_CODES[i]) \notin DOMAIN d }
        last == IF missing = {} THEN Len(ENTITY_CODES)
                ELSE CHOOSE i \in missing : \A j \in missing : i <= j
    IN  [ i \in 1..last |-> [call |-> "is_file", entity |-> ENTITY_CODES[i]] ]

\* _load_esi_tables_from_csv: one read_csv per entity code
LoadCalls == [ i \in DOMAIN ENTITY_CODES |->
                 [call |-> "read_csv", entity |-> ENTITY_CODES[i]] ]

LoadEsiTablesFromCsv(d) ==
    Dict(ENTITY_CODES,
         [ ec \in Entities |-> ReadCsv(d[EntityCsvFilename(ec)]) ])

\* _import_esi_tables_from_xlsx: one read_excel per item of ENTITY_COLS
ImportCalls == [ i \in DOMAIN ENTITY_COLS |->
                   [call |-> "read_excel", entity |-> ENTITY_COLS[i][1]] ]

ImportEsiTablesFromXlsx(sheet) ==
    Dict(Keys(ENTITY_COLS),
         [ ec \in Range(Keys(ENTITY_COLS)) |->
             ReadExcel(sheet, Lookup(ENTITY_COLS, ec)) ])

\* _create_esi_csv_tables: one to_csv per entity code
CreateCallsBackwards ==
    [ i \in DOMAIN ENTITY_CODES |->
        [call |-> "to_csv", entity |-> ENTITY_CODES[Len(ENTITY_CODES) + 1 - i]] ]

CreateCalls == [ i \in DOMAIN ENTITY_CODES |->
                   [call |-> "to_csv", entity |-> ENTITY_CODES[i]] ]

\* the text to_csv writes for each entity's table
CsvTexts(esi_tables) ==
    Dict(ENTITY_CODES, [ ec \in Entities |-> ToCsv(esi_tables[ec]) ])

\* the file-system calls of a whole _fetch_esi_tables, in order
FetchCalls(d) ==
    IsFileCalls(d)
    \o (IF WeHaveCsvs(d) THEN LoadCalls ELSE ImportCalls \o CreateCalls)

\* An I/O fault: call number `at` of the fetch raises (0: no call raises).
\* A to_csv that raises either could not open its file (created = FALSE:
\* the directory is as before) or was cut short after `rows` complete lines.
NoFault == [at |-> 0, created |-> FALSE, rows |-> 0]

Faults(d) ==
    LET calls == FetchCalls(d)
    IN  { [at |-> n, created |-> FALSE, rows |-> 0] :
            n \in { m \in DOMAIN calls : calls[m].call # "is_file" } }
        \cup
        { [at |-> n, created |-> TRUE, rows |-> k] :
            n \in { m \in DOMAIN calls : calls[m].call = "to_csv" },
            k \in 1..(NumRows - 1) }

Truncate(file, k) == [file EXCEPT !.lines = SubSeq(file.lines, 1, k)]

\* what a fetch on directory d and spreadsheet sheet does when nothing
\* raises: its calls, the tables it obtains (loaded when every file exists,
\* imported otherwise), the CSV texts it writes in the second case, and the
\* tables it returns, indexed by monthly period
FetchPlan(d, sheet) ==
    LET cached     == WeHaveCsvs(d)
        esi_tables == IF cached THEN LoadEsiTablesFromCsv(d)
                      ELSE ImportEsiTablesFromXlsx(sheet)
    IN  [calls  |-> FetchCalls(d),
         texts  |-> IF cached THEN << >> ELSE CsvTexts(esi_tables),
         tables |-> Dict(ENTITY_CODES,
                         [ ec \in Entities |-> ToPeriod(esi_tables[ec]) ])]

\* _fetch_esi_tables under a fault: the calls made up to the one that raises,
\* the directory left behind (to_csv completed for the entities in `written`,
\* cut short for the one in `cut`), and whether the tables are returned
FetchOutcome(d, plan, fault) ==
    LET calls   == plan.calls
        made    == IF fault.at = 0 THEN calls ELSE SubSeq(calls, 1, fault.at)
        written == { made[n].entity :
                       n \in { m \in DOMAIN made :
                                 made[m].call = "to_csv" /\ m # fault.at } }
        cut     == IF fault.at # 0 /\ calls[fault.at].call = "to_csv"
                      /\ fault.created
                   THEN { calls[fault.at].entity } ELSE {}
    IN  [disk   |-> [ fn \in DOMAIN d
                          \cup { EntityCsvFilename(ec) : ec \in written \cup cut } |->
                        IF \E ec \in written : fn = EntityCsvFilename(ec)
                        THEN plan.texts[fn[1]]
                        ELSE IF \E ec \in cut : fn = EntityCsvFilename(ec)
                        THEN Truncate(plan.texts[fn[1]], fault.rows)
                        ELSE d[fn] ],
         log    |-> made,
         ok     |-> fault.at = 0,
         tables |-> plan.tables]

-----------------------------------------------------------------------------
(* Operations *)

NoArgs == [name |-> "none"]

FaultsAllowed(d) == IF disturbances > 0 THEN {NoFault} \cup Faults(d) ELSE {NoFault}

Spent(fault) == IF fault.at = 0 THEN 0 ELSE 1

\* a call of _fetch_esi_tables
FetchEsiTables ==
    LET plan == FetchPlan(disk, xlsx)
    IN  \E fault \in FaultsAllowed(disk) :
        LET o == FetchOutcome(disk, plan, fault)
        IN  /\ op' = [name |-> "fetch"]
            /\ disk' = o.disk
            /\ ioLog' = o.log
            /\ outcome' = IF o.ok THEN "ok" ELSE "io_error"
            /\ tables' = IF o.ok THEN << o.tables >> ELSE << >>
            /\ disturbances' = disturbances - Spent(fault)
            /\ UNCHANGED <<xlsx, rankings, history>>

\* the user deletes one cache file by hand
DeleteCacheFile ==
    /\ disturbances > 0
    /\ \E fn \in DOMAIN disk :
          disk' = [ g \in DOMAIN disk \ {fn} |-> disk[g] ]
    /\ disturbances' = disturbances - 1
    /\ op' = [name |-> "delete"]
    /\ outcome' = "ok"
    /\ ioLog' = << >>
    /\ tables' = << >>
    /\ UNCHANGED <<xlsx, rankings, history>>

\* a newer edition of the spreadsheet replaces the source file
ReplaceSpreadsheet ==
    /\ disturbances > 0
    /\ \E sheet \in FetchSheets \ {xlsx} : xlsx' = sheet
    /\ disturbances' = disturbances - 1
    /\ op' = [name |-> "replace"]
    /\ outcome' = "ok"
    /\ ioLog' = << >>
    /\ tables' = << >>
    /\ UNCHANGED <<disk, rankings, history>>

EmptyDisk == [ fn \in {} |-> << >> ]

Init ==
    /\ xlsx \in FetchSheets
    /\ disk = EmptyDisk
    /\ disturbances = MaxDisturbances
    /\ op = NoArgs
    /\ outcome = "none"
    /\ ioLog = << >>
    /\ tables = << >>
    /\ rankings = << >>
    /\ history = << >>

Next == FetchEsiTables \/ DeleteCacheFile \/ ReplaceSpreadsheet

Spec == Init /\ [][Next]_vars

-----------------------------------------------------------------------------
(* sorted(values.items(), key=lambda x: x[1], reverse=True)                *)
(* list.sort on fewer than 64 items: the list is reversed, its leading run *)
(* is found (and reversed when strictly descending), the remaining items   *)
(* are placed by binary insertion, and the list is reversed again.         *)

Reverse(a) == [ i \in 1..Len(a) |-> a[Len(a) + 1 - i] ]

\* key(x) < key(y) for items (label, value)
ItemLt(x, y) == FloatLt(x[2], y[2])

\* count_run: first position after the run that starts at a[1], from i on
RECURSIVE RunEnd(_, _, _)
RunEnd(a, i, descending) ==
    IF i > Len(a) THEN i
    ELSE IF ItemLt(a[i], a[i - 1]) = descending THEN RunEnd(a, i + 1, descending)
    ELSE i

CountRun(a) ==
    IF Len(a) <= 1 THEN [n |-> Len(a), descending |-> FALSE]
    ELSE LET descending == ItemLt(a[2], a[1])
         IN  [n |-> RunEnd(a, 3, descending) - 1, descending |-> descending]

\* binarysort's search: where pivot goes in the sorted prefix a[l..r-1]
RECURSIVE InsertionPoint(_, _, _, _)
InsertionPoint(a, pivot, l, r) ==
    IF l >= r THEN l
    ELSE LET p == l + ((r - l) \div 2)
         IN  IF ItemLt(pivot, a[p]) THEN InsertionPoint(a, pivot, l, p)
             ELSE InsertionPoint(a, pivot, p + 1, r)

\* binarysort: a[1..start-1] is sorted; insert a[start], a[start+1], ...
RECURSIVE BinarySort(_, _)
BinarySort(a, start) ==
    IF start > Len(a) THEN a
    ELSE LET l == InsertionPoint(a, a[start], 1, start)
         IN  BinarySort(SubSeq(a, 1, l - 1) \o << a[start] >>
                        \o SubSeq(a, l, start - 1)
                        \o SubSeq(a, start + 1, Len(a)),
                        start + 1)

\* the same sort without reverse=True
SortedForward(items) ==
    LET run == CountRun(items)
        b   == IF run.descending
               THEN Reverse(SubSeq(items, 1, run.n))
                    \o SubSeq(items, run.n + 1, Len(items))
               ELSE items
    IN  BinarySort(b, run.n + 1)

\* an ascending sort whose result is reversed afterwards
SortedThenReversed(items) == Reverse(SortedForward(items))

SortedReverse(items) ==
    LET a   == Reverse(items)
        run == CountRun(a)
        b   == IF run.descending
               THEN Reverse(SubSeq(a, 1, run.n)) \o SubSeq(a, run.n + 1, Len(a))
               ELSE a
    IN  Reverse(BinarySort(b, run.n + 1))

-----------------------------------------------------------------------------
(* Ranking Engine *)

INDU_idx == 0
SERV_idx == 1
CONS_idx == 2
RETA_idx == 3
BUIL_idx == 4
ESI_idx == 5

\* the keys of the rankings dict with the column index each is filled from,
\* in insertion order
RankingColumns ==
    << <<"industrial_confidence", INDU_idx>>,
       <<"services_confidence", SERV_idx>>,
       <<"consumer_confidence", CONS_idx>>,
       <<"retail_confidence", RETA_idx>>,
       <<"construction_confidence", BUIL_idx>>,
       <<"esi", ESI_idx>> >>

\* a window that never looks at the previous month
WindowCurrentOnly(query) ==
    IF query.date = << >>
    THEN [start |-> query.now, end |-> query.now]
    ELSE [start |-> query.date[1], end |-> query.date[1]]

\* start_date and end_date of the lookup window
Window(query) ==
    IF query.date = << >>
    THEN [start |-> MonthAgo(query.now), end |-> query.now]
    ELSE [start |-> query.date[1], end |-> query.date[1]]

\* tail(1) of the whole table instead of the slice
LatestRowsUnsliced(df, w) ==
    IF df.rows = << >> THEN << >> ELSE << df.rows[Len(df.rows)] >>

\* df[start_date:end_date].tail(1).values.tolist(): the last row whose
\* period lies in the window, as a list of rows (empty when there is none)
LatestRows(df, w) ==
    LET inside == { r \in DOMAIN df.index :
                      /\ Ord(w.start) <= Ord(df.index[r])
                      /\ Ord(df.index[r]) <= Ord(w.end) }
    IN  IF inside = {} THEN << >>
        ELSE << df.rows[CHOOSE r \in inside : \A q \in inside : q <= r] >>

\* the rankings left in insertion order
RankingsOfUnsorted(latest_values) ==
    [ k \in DOMAIN RankingColumns |->
        << RankingColumns[k][1],
           [ i \in DOMAIN ESI_ENTITIES |->
                << ESI_ENTITIES[i][2],
                   latest_values[ESI_ENTITIES[i][1]][RankingColumns[k][2] + 1] >> ] >> ]

\* the rankings built from latest_values: per ranking a dict label -> value
\* filled in ESI_ENTITIES order, then sorted by value, largest first
RankingsOf(latest_values) ==
    [ k \in DOMAIN RankingColumns |->
        << RankingColumns[k][1],
           SortedReverse([ i \in DOMAIN ESI_ENTITIES |->
                << ESI_ENTITIES[i][2],
                   latest_values[ESI_ENTITIES[i][1]][RankingColumns[k][2] + 1] >> ]) >> ]

\* get_latest_rankings on the fetched tables: the rankings, or << >> when
\* some entity has no row in the window (IndexError, sys.exit)
LatestRankings(esi_tables, query) ==
    LET w      == Window(query)
        latest == Dict(Keys(ESI_ENTITIES),
                       [ ec \in Entities |-> LatestRows(esi_tables[ec], w) ])
    IN  IF \E ec \in Entities : latest[ec] = << >> THEN << >>
        ELSE << RankingsOf([ ec \in Entities |-> latest[ec][1] ]) >>

-----------------------------------------------------------------------------
(* History Engine *)

\* the first n items instead of the last
HeadOf(seq, n) ==
    IF n = 0 THEN << >>
    ELSE SubSeq(seq, 1, IF Len(seq) > n THEN n ELSE Len(seq))

\* Series.tail(n) / DataFrame.tail(n) for n >= 0: the last n items, all of
\* them when there are fewer
TailOf(seq, n) ==
    IF n = 0 THEN << >>
    ELSE SubSeq(seq, IF Len(seq) > n THEN Len(seq) - n + 1 ELSE 1, Len(seq))

\* the component looked up: an unknown token falls back to '.ESI'
EffectiveComponentFirst(esi_component) ==
    IF esi_component \notin Range(ESI_COMPONENTS) THEN ESI_COMPONENTS[1]
    ELSE esi_component

EffectiveComponent(esi_component) ==
    IF esi_component \notin Range(ESI_COMPONENTS) THEN ".ESI"
    ELSE esi_component

\* df[col]: the values of the column named col
Column(df, col) ==
    LET c == CHOOSE k \in DOMAIN df.columns : df.columns[k] = col
    IN  [ r \in DOMAIN df.rows |-> df.rows[r][c] ]

\* get_historical_values on the fetched tables
HistoricalValues(esi_tables, esi_component, months) ==
    LET component == EffectiveComponent(esi_component)
    IN  [countries |->
            Dict(ENTITY_CODES,
                 [ ec \in Entities |->
                     TailOf(Column(esi_tables[ec], << Upper(ec), component >>),
                            months) ]),
         dates |-> TailOf(esi_tables[ENTITY_CODES[1]].index, months)]

-----------------------------------------------------------------------------
(* Queries and the cache directories they start from *)

\* months asked for, and months the clock may show: from the month before
\* the first row to two months after the last
QueryMonths ==
    { FromOrd(n) : n \in (Ord(FirstPeriod) - 1)..(Ord(FirstPeriod) + NumRows + 1) }

Queries ==
    { [name |-> "rank", date |-> << m >>, now |-> FirstPeriod] : m \in QueryMonths }
    \cup { [name |-> "rank", date |-> << >>, now |-> m] : m \in QueryMonths }

ComponentTokens ==
    Range(ESI_COMPONENTS) \cup { "not_a_real_suffix", "ESI", ".esi" }

\* what earlier runs leave behind: nothing, a complete cache of the sheet, or
\* a cache whose last file was cut short by an interrupted write
CacheShapes(sheet) ==
    LET plan == FetchPlan(EmptyDisk, sheet)
    IN  { EmptyDisk, FetchOutcome(EmptyDisk, plan, NoFault).disk }
        \cup { FetchOutcome(EmptyDisk, plan,
                   [at |-> Len(plan.calls), created |-> TRUE, rows |-> k]).disk :
               k \in 1..(NumRows - 1) }

Holes == { 0, 5, 11, 15, 16 }

RankSheets == { SheetOf(0, h) : h \in Holes }

HistSheets == { SheetOf(1, 0), SheetOf(2, Len(ENTITY_CODES)) }

\* a call of get_latest_rankings
GetLatestRankings ==
    LET plan == FetchPlan(disk, xlsx)
    IN  \E fault \in FaultsAllowed(disk), query \in Queries :
        LET o == FetchOutcome(disk, plan, fault)
            r == LatestRankings(o.tables, query)
        IN  /\ op' = query
            /\ disk' = o.disk
            /\ ioLog' = o.log
            /\ disturbances' = disturbances - Spent(fault)
            /\ tables' = IF o.ok THEN << o.tables >> ELSE << >>
            /\ rankings' = IF o.ok THEN r ELSE << >>
            /\ outcome' = IF ~o.ok THEN "io_error"
                          ELSE IF r = << >> THEN "out_of_range" ELSE "ok"
            /\ UNCHANGED <<xlsx, history>>

\* a call of get_historical_values
GetHistoricalValues ==
    LET plan == FetchPlan(disk, xlsx)
    IN  \E fault \in FaultsAllowed(disk),
           token \in ComponentTokens, months \in 0..MaxMonths :
        LET o == FetchOutcome(disk, plan, fault)
        IN  /\ op' = [name |-> "hist", component |-> token, months |-> months]
            /\ disk' = o.disk
            /\ ioLog' = o.log
            /\ disturbances' = disturbances - Spent(fault)
            /\ tables' = IF o.ok THEN << o.tables >> ELSE << >>
            /\ history' = IF o.ok
                          THEN << HistoricalValues(o.tables, token, months) >>
                          ELSE << >>
            /\ outcome' = IF o.ok THEN "ok" ELSE "io_error"
            /\ UNCHANGED <<xlsx, rankings>>

InitQuery(sheets) ==
    /\ xlsx \in sheets
    /\ disk \in CacheShapes(xlsx)
    /\ disturbances = 0
    /\ op = NoArgs
    /\ outcome = "none"
    /\ ioLog = << >>
    /\ tables = << >>
    /\ rankings = << >>
    /\ history = << >>

InitRank == InitQuery(RankSheets)

NextRank == GetLatestRankings

SpecRank == InitRank /\ [][NextRank]_vars

InitHist == InitQuery(HistSheets)

NextHist == GetHistoricalValues

SpecHist == InitHist /\ [][NextHist]_vars

-----------------------------------------------------------------------------
(* Properties of the Table Cache Manager (specification Spec) *)

AllFiles == { EntityCsvFilename(ec) : ec \in Entities }

CallsOf(log, kind) == { n \in DOMAIN log : log[n].call = kind }

\* every entity appears in exactly one call of this kind
OncePerEntity(log, kind) ==
    \A ec \in Entities :
        Cardinality({ n \in CallsOf(log, kind) : log[n].entity = ec }) = 1

\* the CSV text of the entity's columns of the spreadsheet
ImportedText(sheet, ec) == ToCsv(ReadExcel(sheet, Lookup(ENTITY_COLS, ec)))

\* C1: a fetch that completes decides all-or-nothing on the cache.  When all
\* 16 cache files exist it reads each of them once, does not read the
\* spreadsheet, writes no file and leaves the directory as it was; when at
\* least one is missing it reads the spreadsheet once per entity and writes
\* all 16 files (also those that existed) with the spreadsheet's data, and
\* reads no cache file.
C1_AllOrNothing ==
    [][ (op'.name = "fetch" /\ outcome' = "ok") =>
        IF AllFiles \subseteq DOMAIN disk
        THEN /\ OncePerEntity(ioLog', "read_csv")
             /\ CallsOf(ioLog', "read_excel") = {}
             /\ CallsOf(ioLog', "to_csv") = {}
             /\ disk' = disk
        ELSE /\ OncePerEntity(ioLog', "read_excel")
             /\ OncePerEntity(ioLog', "to_csv")
             /\ CallsOf(ioLog', "read_csv") = {}
             /\ DOMAIN disk' = AllFiles
             /\ \A ec \in Entities :
                   disk'[EntityCsvFilename(ec)] = ImportedText(xlsx, ec)
      ]_vars

\* a completed fetch that found the first cache files in place, another one
\* missing, and rewrote them all
C1_Witness ==
    /\ op.name = "fetch" /\ outcome = "ok"
    /\ Cardinality(CallsOf(ioLog, "is_file")) >= 2
    /\ Cardinality(CallsOf(ioLog, "to_csv")) = Len(ENTITY_CODES)

\* C2 as stated: starting from a cache with no files, after any fetch, also
\* one aborted by an I/O failure, the number of cache files is 0 or 16.
C2_ZeroOrSixteen ==
    [][ (op'.name = "fetch" /\ DOMAIN disk = {}) =>
        Cardinality(DOMAIN disk') \in {0, Len(ENTITY_CODES)} ]_vars

\* C2 amended: starting from a cache with no files, after any fetch the cache
\* files are those of the first k entities of the catalog, for some k in
\* 0..16: k = 16 when the fetch completed, k = 0 when it was aborted before
\* the first write, and all files but the k-th hold the complete CSV text of
\* the entity's imported table.
C2_PrefixWritten ==
    [][ (op'.name = "fetch" /\ DOMAIN disk = {}) =>
        \E k \in 0..Len(ENTITY_CODES) :
          /\ DOMAIN disk' = { EntityCsvFilename(ENTITY_CODES[i]) : i \in 1..k }
          /\ outcome' = "ok" => k = Len(ENTITY_CODES)
          /\ CallsOf(ioLog', "to_csv") = {} => k = 0
          /\ \A i \in 1..(k - 1) :
                disk'[EntityCsvFilename(ENTITY_CODES[i])]
                  = ImportedText(xlsx, ENTITY_CODES[i])
      ]_vars

\* a fetch aborted while writing has left some, but not all, cache files
C2_Witness ==
    /\ op.name = "fetch" /\ outcome = "io_error"
    /\ Cardinality(DOMAIN disk) \in 1..(Len(ENTITY_CODES) - 1)

\* C5: once a fetch has completed, a later fetch, whatever the spreadsheet
\* then holds, does not read the spreadsheet, leaves every cache file as it
\* is, and returns the tables the completed fetch returned; this includes the
\* fetch that imported the spreadsheet and created the cache.
C5_FetchIdempotent ==
    (op.name = "fetch" /\ outcome = "ok") =>
        \A sheet \in FetchSheets :
            LET later == FetchOutcome(disk, FetchPlan(disk, sheet), NoFault)
            IN  /\ CallsOf(later.log, "read_excel") = {}
                /\ later.disk = disk
                /\ later.tables = tables[1]

\* the completed fetch was the one that imported the spreadsheet, whose
\* values include negative ones and missing ones
C5_Witness ==
    /\ op.name = "fetch" /\ outcome = "ok"
    /\ CallsOf(ioLog, "read_excel") # {}
    /\ \E ec \in Entities :
         \E r \in DOMAIN tables[1][ec].rows, c \in DOMAIN ESI_COMPONENTS :
            /\ ~tables[1][ec].rows[r][c].nan
            /\ tables[1][ec].rows[r][c].tenths < 0
    /\ \E ec \in Entities :
         \E r \in DOMAIN tables[1][ec].rows, c \in DOMAIN ESI_COMPONENTS :
            tables[1][ec].rows[r][c].nan

-----------------------------------------------------------------------------
(* Properties of the Ranking Engine (specification SpecRank) *)

PreviousMonth(m) ==
    IF m.month = 1 THEN [year |-> m.year - 1, month |-> 12]
    ELSE [year |-> m.year, month |-> m.month - 1]

\* the months of the lookup window of a query
WindowMonths(q) ==
    IF q.date # << >> THEN { q.date[1] } ELSE { q.now, PreviousMonth(q.now) }

HasRow(df, months) == \E r \in DOMAIN df.index : df.index[r] \in months

RowFor(df, m) == df.rows[CHOOSE r \in DOMAIN df.index : df.index[r] = m]

Labels == { ESI_ENTITIES[i][2] : i \in DOMAIN ESI_ENTITIES }

CatalogPos(label) == CHOOSE i \in DOMAIN ESI_ENTITIES : ESI_ENTITIES[i][2] = label

RankingNames ==
    << "industrial_confidence", "services_confidence", "consumer_confidence",
       "retail_confidence", "construction_confidence", "esi" >>

\* the entries (label, value) of the k-th returned ranking
Entries(k) == rankings[1][k][2]

ValueOf(k, label) ==
    Entries(k)[CHOOSE n \in DOMAIN Entries(k) : Entries(k)[n][1] = label][2]

Returned == op.name = "rank" /\ outcome = "ok"

\* C3: get_latest_rankings ends with the out-of-range failure exactly when
\* at least one entity has no row in the lookup window, and then returns
\* nothing; otherwise it returns exactly 6 rankings of exactly 16 entries,
\* one per entity.
C3_NeverPartial ==
    op.name = "rank" =>
      /\ outcome = "out_of_range"
           <=> \E ec \in Entities : ~HasRow(tables[1][ec], WindowMonths(op))
      /\ outcome = "out_of_range" => rankings = << >>
      /\ outcome # "out_of_range" =>
           /\ outcome = "ok"
           /\ Len(rankings[1]) = Len(RankingNames)
           /\ \A k \in DOMAIN rankings[1] :
                /\ Len(Entries(k)) = Len(ENTITY_CODES)
                /\ { Entries(k)[n][1] : n \in DOMAIN Entries(k) } = Labels

\* the failure is raised although some entities do have a row in the window
C3_Witness ==
    /\ op.name = "rank" /\ outcome = "out_of_range"
    /\ \E ec \in Entities : HasRow(tables[1][ec], WindowMonths(op))

\* C4: in every returned ranking, value[i] >= value[i+1] for all adjacent
\* positions whose values are both non-missing, also when some entities'
\* values are missing.
C4_AdjacentOrdered ==
    Returned =>
      \A k \in DOMAIN rankings[1] :
        \A i \in 1..(Len(Entries(k)) - 1) :
          (~Entries(k)[i][2].nan /\ ~Entries(k)[i + 1][2].nan)
            => Entries(k)[i][2].tenths >= Entries(k)[i + 1][2].tenths

\* a returned ranking with a missing value between two different values
C4_Witness ==
    /\ Returned
    /\ \E k \in DOMAIN rankings[1] :
         \E i \in 2..(Len(Entries(k)) - 1) :
            /\ Entries(k)[i][2].nan
            /\ ~Entries(k)[1][2].nan
            /\ ~Entries(k)[Len(Entries(k))][2].nan
            /\ Entries(k)[1][2] # Entries(k)[Len(Entries(k))][2]

\* C8 as stated: in every returned ranking, value[i] >= value[j] for any two
\* positions i < j whose values are both non-missing.
C8_SortedOverNonMissing ==
    Returned =>
      \A k \in DOMAIN rankings[1] :
        \A i, j \in DOMAIN Entries(k) :
          (i < j /\ ~Entries(k)[i][2].nan /\ ~Entries(k)[j][2].nan)
            => Entries(k)[i][2].tenths >= Entries(k)[j][2].tenths

\* C8 amended: in every returned ranking, value[i] >= value[j] for any two
\* positions i < j with no missing value at the positions i..j; a ranking
\* with no missing value is sorted descending as a whole, its first entry
\* the maximum and its last entry the minimum.
C8_SortedBetweenMissing ==
    Returned =>
      \A k \in DOMAIN rankings[1] :
        /\ \A i, j \in DOMAIN Entries(k) :
             (i < j /\ \A n \in i..j : ~Entries(k)[n][2].nan)
               => Entries(k)[i][2].tenths >= Entries(k)[j][2].tenths
        /\ (\A n \in DOMAIN Entries(k) : ~Entries(k)[n][2].nan) =>
             \A n \in DOMAIN Entries(k) :
                /\ Entries(k)[1][2].tenths >= Entries(k)[n][2].tenths
                /\ Entries(k)[n][2].tenths >= Entries(k)[Len(Entries(k))][2].tenths

\* a returned ranking with no missing value whose order is not the catalog's
C8_Witness ==
    /\ Returned
    /\ \E k \in DOMAIN rankings[1] :
         /\ \A n \in DOMAIN Entries(k) : ~Entries(k)[n][2].nan
         /\ Entries(k)[1][2].tenths > Entries(k)[Len(Entries(k))][2].tenths
         /\ Entries(k)[1][1] # ESI_ENTITIES[1][2]

\* C9: each entity's 6 values come from its row for the month given or, when
\* none is given, from its row for the current month if it has one and
\* otherwise from its row for the previous month; the call returns whenever
\* every entity has that row; the k-th ranking is filled from column k-1.
TargetMonth(df, q) ==
    IF q.date # << >> THEN q.date[1]
    ELSE IF HasRow(df, { q.now }) THEN q.now ELSE PreviousMonth(q.now)

C9_LookupWindow ==
    op.name = "rank" =>
      IF \A ec \in Entities :
            HasRow(tables[1][ec], { TargetMonth(tables[1][ec], op) })
      THEN /\ outcome = "ok"
           /\ \A k \in DOMAIN RankingNames :
                /\ rankings[1][k][1] = RankingNames[k]
                /\ \A i \in DOMAIN ESI_ENTITIES :
                     LET df == tables[1][ESI_ENTITIES[i][1]]
                     IN  ValueOf(k, ESI_ENTITIES[i][2])
                           = RowFor(df, TargetMonth(df, op))[k]
      ELSE outcome = "out_of_range"

\* no month given: one entity has its row for the current month, another
\* only the row for the previous month
C9_Witness ==
    /\ Returned /\ op.date = << >>
    /\ \E ec \in Entities : HasRow(tables[1][ec], { op.now })
    /\ \E ec \in Entities : ~HasRow(tables[1][ec], { op.now })

\* C10 as stated: two entities with equal values for a component appear in
\* that component's ranking in catalog order.
C10_TiesInCatalogOrder ==
    Returned =>
      \A k \in DOMAIN rankings[1] :
        \A i, j \in DOMAIN Entries(k) :
          (/\ ~Entries(k)[i][2].nan
           /\ Entries(k)[i][2] = Entries(k)[j][2]
           /\ CatalogPos(Entries(k)[i][1]) < CatalogPos(Entries(k)[j][1]))
            => i < j

\* C10 amended: the same, for the components for which no entity's value is
\* missing.
C10_TiesInCatalogOrderNoMissing ==
    Returned =>
      \A k \in DOMAIN rankings[1] :
        (\A n \in DOMAIN Entries(k) : ~Entries(k)[n][2].nan) =>
          \A i, j \in DOMAIN Entries(k) :
            (/\ Entries(k)[i][2] = Entries(k)[j][2]
             /\ CatalogPos(Entries(k)[i][1]) < CatalogPos(Entries(k)[j][1]))
              => i < j

\* a returned ranking with no missing value, two different values and a tie
C10_Witness ==
    /\ Returned
    /\ \E k \in DOMAIN rankings[1] :
         /\ \A n \in DOMAIN Entries(k) : ~Entries(k)[n][2].nan
         /\ \E i, j \in DOMAIN Entries(k) :
              i # j /\ Entries(k)[i][2] = Entries(k)[j][2]
         /\ \E i, j \in DOMAIN Entries(k) : Entries(k)[i][2] # Entries(k)[j][2]

-----------------------------------------------------------------------------
(* Properties of the History Engine (specification SpecHist) *)

Min(a, b) == IF a < b THEN a ELSE b

\* the last min(n, length) items of a sequence
LastItems(seq, n) ==
    [ i \in 1..Min(n, Len(seq)) |-> seq[Len(seq) - Min(n, Len(seq)) + i] ]

\* the values, in index order, of the entity's column for a component
ColumnOf(ec, component) ==
    LET df == tables[1][ec]
        c  == CHOOSE k \in DOMAIN df.columns :
                 df.columns[k] = << Upper(ec), component >>
    IN  [ r \in DOMAIN df.rows |-> df.rows[r][c] ]

Asked ==
    IF op.component \in Range(ESI_COMPONENTS) THEN op.component ELSE ".ESI"

HistoryReturned == op.name = "hist" /\ outcome = "ok"

WindowedSeries ==
    \A ec \in Entities :
        /\ Len(history[1].countries[ec]) <= op.months
        /\ history[1].countries[ec] = LastItems(ColumnOf(ec, Asked), op.months)

WindowedAxis ==
    history[1].dates = LastItems(tables[1][ENTITY_CODES[1]].index, op.months)

\* C6 as stated: each entity's series holds the last min(N, row count)
\* values of its column, the period axis the last min(N, row count) periods
\* of the first catalog entity's table, and every entity's series is as long
\* as the period axis.
C6_SeriesMatchAxis ==
    HistoryReturned =>
      /\ WindowedSeries
      /\ WindowedAxis
      /\ \A ec \in Entities :
            Len(history[1].countries[ec]) = Len(history[1].dates)

\* C6 amended: each entity's series holds the last min(N, row count) values
\* of its column and the period axis the last min(N, row count) periods of
\* the first catalog entity's table, with no padding and no error when N
\* exceeds the rows; an entity's series is as long as the period axis when
\* its table has as many rows as the first catalog entity's table.
C6_Windowing ==
    /\ op.name = "hist" => outcome = "ok"
    /\ HistoryReturned =>
         /\ WindowedSeries
         /\ WindowedAxis
         /\ \A ec \in Entities :
               Len(tables[1][ec].rows) = Len(tables[1][ENTITY_CODES[1]].rows)
                 => Len(history[1].countries[ec]) = Len(history[1].dates)

\* a window larger than the rows available: a shorter, non-empty result
C6_Witness ==
    /\ HistoryReturned
    /\ op.months > Len(tables[1][ENTITY_CODES[1]].rows)
    /\ Len(history[1].dates) \in 1..(op.months - 1)
    /\ \E ec \in Entities :
          ColumnOf(ec, Asked)[1] # ColumnOf(ec, Asked)[Len(ColumnOf(ec, Asked))]

\* C7: a component token that is not one of the 6 recognized suffixes raises
\* no error and gives the series and period axis of '.ESI' with the same
\* window size; a recognized suffix gives the series of its own column.
C7_ComponentFallback ==
    op.name = "hist" =>
      /\ outcome = "ok"
      /\ op.component \notin Range(ESI_COMPONENTS) =>
           history[1] = HistoricalValues(tables[1], ".ESI", op.months)
      /\ op.component \in Range(ESI_COMPONENTS) =>
           \A ec \in Entities :
              history[1].countries[ec]
                = LastItems(ColumnOf(ec, op.component), op.months)

\* an unknown token that differs from '.ESI' only by case returned values
C7_Witness ==
    /\ HistoryReturned
    /\ op.component = ".esi"
    /\ history[1].dates # << >>
    /\ \E ec \in Entities : ~history[1].countries[ec][1].nan

====
